---- MODULE Spec2Model ----
(***************************************************************************)
(* A model of devtools.py: the catalog of development tools, the driver    *)
(* DevToolDeploy.deploy with its lifecycle hooks, the existence probe      *)
(* DevToolDeploy.exists and the version comparison DTUtils.version_lt.     *)
(*                                                                         *)
(* Text (a version string, the captured stdout and stderr of a command) is *)
(* a sequence of one-character strings, so that splitting, parsing and     *)
(* regular-expression search are computed and not assumed.                 *)
(***************************************************************************)
EXTENDS Integers, Sequences, FiniteSets, TLC

(***************************************************************************)
(* Bounds of the model.                                                    *)
(***************************************************************************)
\* number of invocations of the program that are followed one after another
MaxRuns == 2
\* number of catalog names given as positional arguments in one invocation
MaxSel == 2

(***************************************************************************)
(* Text helpers.                                                           *)
(***************************************************************************)
Digits == {"0", "1", "2", "3", "4", "5", "6", "7", "8", "9"}

IsDigit(c) == c \in Digits

DigitVal(c) ==
    CASE c = "0" -> 0 [] c = "1" -> 1 [] c = "2" -> 2 [] c = "3" -> 3
      [] c = "4" -> 4 [] c = "5" -> 5 [] c = "6" -> 6 [] c = "7" -> 7
      [] c = "8" -> 8 [] c = "9" -> 9

MinOf(S) == CHOOSE x \in S : \A y \in S : x <= y

\* str.split(sep): the pieces between the occurrences of sep, empty pieces kept
RECURSIVE split(_, _)
split(s, sep) ==
    LET at == {i \in 1..Len(s) : s[i] = sep}
    IN  IF at = {} THEN <<s>>
        ELSE LET i == MinOf(at)
             IN  <<SubSeq(s, 1, i - 1)>> \o split(SubSeq(s, i + 1, Len(s)), sep)

\* int(s) of a non-empty string of decimal digits
RECURSIVE int(_)
int(s) ==
    IF Len(s) = 1 THEN DigitVal(s[1])
    ELSE 10 * int(SubSeq(s, 1, Len(s) - 1)) + DigitVal(s[Len(s)])

\* tuple(map(int, v.split(".")))
VersionTuple(v) ==
    LET parts == split(v, ".")
    IN  [i \in 1..Len(parts) |-> int(parts[i])]

\* Python's order on tuples of integers: the first differing component decides,
\* and a proper prefix is less than the longer tuple
TupleLt(a, b) ==
    LET n == IF Len(a) < Len(b) THEN Len(a) ELSE Len(b)
    IN  \/ \E k \in 1..n : /\ \A i \in 1..(k - 1) : a[i] = b[i]
                           /\ a[k] < b[k]
        \/ /\ Len(a) < Len(b)
           /\ \A i \in 1..Len(a) : a[i] = b[i]

\* mutant: "<=" for "<"
version_le(v1, v2) ==
    LET vt1 == VersionTuple(v1)
        vt2 == VersionTuple(v2)
    IN  TupleLt(vt1, vt2) \/ vt1 = vt2

\* DTUtils.version_lt
version_lt(v1, v2) ==
    LET vt1 == VersionTuple(v1)
        vt2 == VersionTuple(v2)
    IN  TupleLt(vt1, vt2)

Upper == <<"A", "B", "C", "D", "E", "F", "G", "H", "I", "J", "K", "L", "M",
           "N", "O", "P", "Q", "R", "S", "T", "U", "V", "W", "X", "Y", "Z">>

Lower == <<"a", "b", "c", "d", "e", "f", "g", "h", "i", "j", "k", "l", "m",
           "n", "o", "p", "q", "r", "s", "t", "u", "v", "w", "x", "y", "z">>

\* the character with its case folded, as re.IGNORECASE compares it
Fold(c) ==
    IF \E i \in 1..Len(Upper) : Upper[i] = c
    THEN Lower[CHOOSE i \in 1..Len(Upper) : Upper[i] = c]
    ELSE c

\* re.search(pat, s, re.IGNORECASE) is not None, for a pattern of plain characters
SearchIgnoreCase(pat, s) ==
    \E i \in 1..(Len(s) - Len(pat) + 1) :
        \A k \in 1..Len(pat) : Fold(s[i + k - 1]) = Fold(pat[k])

\* the last index of the run of digits that starts at i (s[i] is a digit)
RunEnd(s, i) ==
    CHOOSE j \in i..Len(s) :
        /\ \A k \in i..j : IsDigit(s[k])
        /\ (j = Len(s) \/ ~IsDigit(s[j + 1]))

\* s[i] is "." and s[i+1] is a digit
DotDigitAt(s, i) == i + 1 <= Len(s) /\ s[i] = "." /\ IsDigit(s[i + 1])

\* the last index of the match of \d+\.\d+(\.\d+)? that starts at i, 0 if none;
\* every quantifier is greedy, and a shorter first run can never be followed
\* by a ".", so backtracking finds nothing the greedy attempt does not
MatchEnd(s, i) ==
    IF i <= Len(s) /\ IsDigit(s[i])
    THEN LET j == RunEnd(s, i)
         IN  IF DotDigitAt(s, j + 1)
             THEN LET k == RunEnd(s, j + 2)
                  IN  IF DotDigitAt(s, k + 1) THEN RunEnd(s, k + 2) ELSE k
             ELSE 0
    ELSE 0

\* re.search(r"\d+\.\d+(\.\d+)?", s) matched
VersionFound(s) == \E i \in 1..Len(s) : MatchEnd(s, i) # 0

\* re.search(r"\d+\.\d+(\.\d+)?", s).group(0): the leftmost match
VersionMatch(s) ==
    LET i == MinOf({x \in 1..Len(s) : MatchEnd(s, x) # 0})
    IN  SubSeq(s, i, MatchEnd(s, i))

CommandNotFound == <<"c", "o", "m", "m", "a", "n", "d", " ", "n", "o", "t", " ", "f", "o", "u", "n", "d">>

(***************************************************************************)
(* The catalog (dt_list of __main__).  The entries that use only the       *)
(* default hooks of DevToolDeploy (ack, ag, cmake, cscope, gcc, g++, gdb,  *)
(* git, meson, pip3, tmux) behave alike in the driver and are represented  *)
(* by gcc; autojump and ctags, which add a configure() of their own to     *)
(* the default hooks, are left out.  The order of the entries is the order *)
(* of dt_list.                                                             *)
(***************************************************************************)
dt_list == <<"fzf", "gcc", "zsh", "ohmyzsh", "tpm", "vimrc">>

Tools == {dt_list[i] : i \in 1..Len(dt_list)}

\* the entries whose class overrides exists() by a test of the install prefix
PrefixProbed == {"ohmyzsh", "tpm", "vimrc"}

\* the entries whose class overrides download() by DTUtils.git_shallow_clone
Cloned == {"fzf", "ohmyzsh", "tpm", "vimrc"}

NoText == <<>>

ZshMinVersion == <<"5", ".", "0", ".", "8">>

\* DevToolDescriptor.min_version of each entry
min_version(t) == IF t = "zsh" THEN ZshMinVersion ELSE NoText

(***************************************************************************)
(* What a command may print for "--version": samples of stdout per command *)
(* and of stderr.                                                          *)
(***************************************************************************)
ZshOut == {<<"z", "s", "h", " ", "5", ".", "8">>,
           <<"z", "s", "h", " ", "5", ".", "0", ".", "8">>,
           <<"z", "s", "h", " ", "4", ".", "3", ".", "1", "1">>,
           <<"z", "s", "h", " ", "5", ".", "0">>,
           <<>>,
           <<"z", "s", "h", " ", "v", "5">>}

GccOut == {<<"g", "c", "c", " ", "9", ".", "4", ".", "0">>,
           <<>>}

FzfOut == {<<"0", ".", "2", "9", " ", "(", "b", "r", "e", "w", ")">>,
           <<>>}

Stdouts(t) ==
    CASE t = "zsh" -> ZshOut
      [] t = "gcc" -> GccOut
      [] OTHER -> FzfOut

Stderrs == {<<>>,
            <<"s", "h", ":", " ", "C", "o", "m", "m", "a", "n", "d", " ", "N", "o", "t", " ", "F", "o", "u", "n", "d">>,
            <<"b", "a", "d", " ", "o", "p", "t", "i", "o", "n">>}

ReturnCodes == {0, 1}

(***************************************************************************)
(* Files of the home directory.  A file is the sequence of its lines, a    *)
(* line the sequence of the pieces of text written into it; nl tells       *)
(* whether the last line ends with a newline (text appended to a file      *)
(* whose last line does not end with one continues that line).             *)
(***************************************************************************)
Files == {".vimrc", ".vimrc.orig", ".zshrc", ".zshrc.orig", ".tmux.conf"}

FileAbsent == [exists |-> FALSE, lines |-> <<>>, nl |-> TRUE]

\* a file written by the user before the program ever ran
UserFile == [exists |-> TRUE, lines |-> <<<<"user">>>>, nl |-> TRUE]

\* templates/zshrc.zsh-template of the ohmyzsh repository
TemplateFile == [exists |-> TRUE, lines |-> <<<<"zshrc.zsh-template">>>>, nl |-> TRUE]

\* the .vimrc that install_awesome_vimrc.sh writes
AwesomeFile == [exists |-> TRUE, lines |-> <<<<"awesome vimrc">>>>, nl |-> TRUE]

\* inspect.cleandoc(config) of DTTpm.configure: five lines, the last unterminated
TpmConfig == <<<<"set -g @plugin 'tmux-plugins/tpm'">>,
               <<"set -g @plugin 'tmux-plugins/tmux-sensible'">>,
               <<"set -g @plugin 'tmux-plugins/tmux-resurrect'">>,
               <<>>,
               <<"run '~/.tmux/plugins/tpm/tpm'">>>>

\* appended_line of DTFzf.configure
FzfLine == <<<<"set runtimepath+=~/.fzf">>>>

\* open(path, 'a+') and write(text), text being lines without a final newline
AppendText(f, text) ==
    IF ~f.exists \/ f.lines = <<>>
    THEN [exists |-> TRUE, lines |-> text, nl |-> FALSE]
    ELSE IF f.nl
    THEN [exists |-> TRUE, lines |-> f.lines \o text, nl |-> FALSE]
    ELSE LET n == Len(f.lines)
         IN  [exists |-> TRUE,
              lines |-> SubSeq(f.lines, 1, n - 1)
                          \o <<f.lines[n] \o text[1]>> \o Tail(text),
              nl |-> FALSE]

\* mutant: only the first line of the file is looked at
HasLine_first_line(f, piece) ==
    /\ Len(f.lines) >= 1
    /\ \E k \in 1..Len(f.lines[1]) : f.lines[1][k] = piece

\* "appended_line in line" for some line of the file
HasLine(f, piece) ==
    \E i \in 1..Len(f.lines) : \E k \in 1..Len(f.lines[i]) : f.lines[i][k] = piece

(***************************************************************************)
(* State.                                                                  *)
(***************************************************************************)
VARIABLES
    run,            \* the number of the invocation of the program
    args,           \* parseArgs(): dtools, uninst, whatprovided
    pc,             \* where the invocation stands
    idx,            \* the index in dt_list the loop of __main__ looks at next
    self,           \* the entry being deployed ("none" before the first)
    calls,          \* the probe and the hooks deploy() has called for self, in order
    msgs,           \* what deploy() and the hooks have printed for self, in order
    euid,           \* what os.geteuid() returned when the module was loaded
                    \* (the program keeps WHOAMI and nothing else of it: the
                    \* value is dropped with the locals of the first probe)
    spawn,          \* proc, stdout and stderr of the exists() that has just
                    \* returned (its locals: gone when the next hook is entered)
    rc_before,      \* history: <<the .vimrc that the last DTVimrc.install that
                    \* returned had found>>, <<>> while none has returned
    hook_proc,      \* how the external command of the hook that has just
                    \* returned ended (a local of the hook, gone likewise)
    exists_ret,     \* what exists() returned for self
    download_ret,   \* what download() returned for self
    curr_version,   \* dtd.curr_version of each entry
    prefix,         \* whether the install prefix of each cloned entry is on disk
    fs,             \* the files of the home directory
    listed,         \* list_all() has printed the catalog
    deployed,       \* the entries devtool_deploy() was called for, in order
    raised,         \* the invocation ended by an exception nobody caught
    vpc, v1, v2, lt \* a call of version_lt: its arguments and its result

vars == <<run, args, pc, idx, self, calls, msgs, euid, spawn, hook_proc, rc_before,
          exists_ret, download_ret, curr_version, prefix, fs, listed, deployed,
          raised, vpc, v1, v2, lt>>

verVars == <<vpc, v1, v2, lt>>

NoSpawn == [kind |-> "none", stdout |-> NoText, stderr |-> NoText, returncode |-> 0]

\* what Popen and communicate() can do for the command of entry t: the
\* executable is missing (FileNotFoundError), or it ran and printed and exited
Spawns(t) ==
    {[kind |-> "FileNotFoundError", stdout |-> NoText, stderr |-> NoText,
      returncode |-> 0]}
    \cup {[kind |-> "ran", stdout |-> o, stderr |-> e, returncode |-> c] :
            o \in Stdouts(t), e \in Stderrs, c \in ReturnCodes}

\* the command lines parseArgs() can return
ArgSets ==
    {[dtools |-> d, uninst |-> u, whatprovided |-> l] :
        d \in {s \in SUBSET Tools : Cardinality(s) <= MaxSel},
        u \in BOOLEAN, l \in BOOLEAN}

(***************************************************************************)
(* The existence probe.                                                    *)
(***************************************************************************)
\* mutant: the exit code is tested before "Do not care the version of program"
exists_rc_first(sp, min_v, cur_v) ==
    IF sp.kind = "FileNotFoundError"
    THEN [ret |-> FALSE, curr_version |-> cur_v]
    ELSE IF SearchIgnoreCase(CommandNotFound, sp.stderr)
    THEN [ret |-> FALSE, curr_version |-> cur_v]
    ELSE LET curr_ver_unknown == ~VersionFound(sp.stdout)
             cv == IF curr_ver_unknown THEN cur_v ELSE VersionMatch(sp.stdout)
         IN  [ret |-> IF sp.returncode # 0 THEN FALSE
                      ELSE IF Len(min_v) = 0 \/ curr_ver_unknown THEN TRUE
                      ELSE ~version_lt(cv, min_v),
              curr_version |-> cv]

\* mutant: a version that cannot be extracted passes the gate
exists_unknown_ok(sp, min_v, cur_v) ==
    IF sp.kind = "FileNotFoundError"
    THEN [ret |-> FALSE, curr_version |-> cur_v]
    ELSE IF SearchIgnoreCase(CommandNotFound, sp.stderr)
    THEN [ret |-> FALSE, curr_version |-> cur_v]
    ELSE LET curr_ver_unknown == ~VersionFound(sp.stdout)
             cv == IF curr_ver_unknown THEN cur_v ELSE VersionMatch(sp.stdout)
         IN  [ret |-> IF Len(min_v) = 0 THEN TRUE
                      ELSE IF sp.returncode # 0 THEN FALSE
                      ELSE IF curr_ver_unknown THEN TRUE
                      ELSE ~version_lt(cv, min_v),
              curr_version |-> cv]

\* mutant: the whole output of the command is kept as the version
exists_output_kept(sp, min_v, cur_v) ==
    IF sp.kind = "FileNotFoundError"
    THEN [ret |-> FALSE, curr_version |-> cur_v]
    ELSE IF SearchIgnoreCase(CommandNotFound, sp.stderr)
    THEN [ret |-> FALSE, curr_version |-> cur_v]
    ELSE LET curr_ver_unknown == ~VersionFound(sp.stdout)
             cv == IF curr_ver_unknown THEN cur_v ELSE VersionMatch(sp.stdout)
         IN  [ret |-> IF Len(min_v) = 0 THEN TRUE
                      ELSE IF sp.returncode # 0 \/ curr_ver_unknown THEN FALSE
                      ELSE ~version_lt(cv, min_v),
              curr_version |-> IF curr_ver_unknown THEN cur_v ELSE sp.stdout]

\* DevToolDeploy.exists: what it returns and what it leaves in
\* dtd.curr_version, given what Popen did, dtd.min_version and the
\* dtd.curr_version it found
exists(sp, min_v, cur_v) ==
    IF sp.kind = "FileNotFoundError"
    THEN [ret |-> FALSE, curr_version |-> cur_v]
    ELSE IF SearchIgnoreCase(CommandNotFound, sp.stderr)
    THEN [ret |-> FALSE, curr_version |-> cur_v]
    ELSE LET curr_ver_unknown == ~VersionFound(sp.stdout)
             cv == IF curr_ver_unknown THEN cur_v ELSE VersionMatch(sp.stdout)
         IN  [ret |-> IF Len(min_v) = 0 THEN TRUE
                      ELSE IF sp.returncode # 0 \/ curr_ver_unknown THEN FALSE
                      ELSE ~version_lt(cv, min_v),
              curr_version |-> cv]

\* DTOhMyZsh.exists, DTTpm.exists, DTVimrc.exists: os.path.exists(self.dtd.prefix)
prefix_exists(on_disk) == on_disk

(***************************************************************************)
(* The driver.                                                             *)
(***************************************************************************)
\* mutant: the install direction does not look at the probe
AfterExists_reinstall(uninst, r) ==
    IF uninst
    THEN IF r THEN "uninstall" ELSE "loop"
    ELSE "download"

\* mutant: the uninstall direction does not look at the probe
AfterExists_purge(uninst, r) ==
    IF uninst
    THEN "uninstall"
    ELSE IF r THEN "configure" ELSE "download"

\* where deploy() goes after "if self.exists()"
AfterExists(uninst, r) ==
    IF uninst
    THEN IF r THEN "uninstall" ELSE "loop"
    ELSE IF r THEN "configure" ELSE "download"

\* what deploy() prints after "if self.exists()"
SaidAfterExists(uninst, r) ==
    IF uninst /\ ~r THEN <<"warning: not installed yet">>
    ELSE IF ~uninst /\ r THEN <<"okay: has existed">>
    ELSE <<>>

\* mutant: the result of download() is not looked at
AfterDownload_ignored(ok) == "unpack"

\* where deploy() goes after "if not self.download(): return"
AfterDownload(ok) == IF ok THEN "unpack" ELSE "loop"

\* mutant: configure() is called after uninstall() as well
NextHook_both_directions(h) ==
    CASE h = "unpack" -> "build"
      [] h = "build" -> "install"
      [] h = "install" -> "clean"
      [] h = "clean" -> "configure"
      [] h = "configure" -> "loop"
      [] h = "uninstall" -> "configure"

\* the hook deploy() calls after hook h has returned ("loop": deploy returns)
NextHook(h) ==
    CASE h = "unpack" -> "build"
      [] h = "build" -> "install"
      [] h = "install" -> "clean"
      [] h = "clean" -> "configure"
      [] h = "configure" -> "loop"
      [] h = "uninstall" -> "loop"

\* how an external command run by a hook can end
ProcOutcomes == {"exit 0", "exit nonzero", "OSError"}

\* the hook that has just returned ran no external command
NoProc == "none"

\* what os.geteuid() tells: the process runs as root (under sudo), or it does not
Euids == {"root", "user"}

\* the entries whose install() and uninstall() are the defaults: apt-get, which
\* needs root and is run through sudo
AptProvisioned == {"gcc", "zsh"}

\* mutant: the exit code of git is not looked at
git_shallow_clone_spawned(o) == o # "OSError"

\* DTUtils.git_shallow_clone: True exactly when git exits with code 0
git_shallow_clone(o) == o = "exit 0"

\* download() of entry t, o being how "git clone" ends
download(t, o) == IF t \in Cloned THEN git_shallow_clone(o) ELSE TRUE

Call(h) == calls' = Append(calls, h)

Say(m) == msgs' = msgs \o m

Goto(p) == pc' = p /\ raised' = raised

\* an exception leaves the hook, deploy() and the loop of __main__
Throw == pc' = "exit" /\ raised' = TRUE

loopVars == <<run, args, idx, self, listed, deployed>>

TypeOK ==
    /\ run \in 1..MaxRuns
    /\ args \in ArgSets
    /\ pc \in {"start", "loop", "exists", "download", "unpack", "build",
               "install", "clean", "configure", "uninstall", "exit"}
    /\ idx \in 1..(Len(dt_list) + 1)
    /\ self \in Tools \cup {"none"}
    /\ exists_ret \in BOOLEAN
    /\ download_ret \in BOOLEAN
    /\ euid \in Euids \cup {"unread"}
    /\ hook_proc \in ProcOutcomes \cup {NoProc, "KeyError"}
    /\ Len(rc_before) <= 1
    /\ listed \in BOOLEAN
    /\ raised \in BOOLEAN
    /\ DOMAIN curr_version = Tools
    /\ DOMAIN prefix = Cloned
    /\ DOMAIN fs = Files

Init ==
    /\ run = 1
    /\ args \in ArgSets
    /\ pc = "start"
    /\ idx = 1
    /\ self = "none"
    /\ calls = <<>>
    /\ msgs = <<>>
    /\ euid = "unread"
    /\ spawn = NoSpawn
    /\ hook_proc = NoProc
    /\ rc_before = <<>>
    /\ exists_ret = FALSE
    /\ download_ret = FALSE
    /\ curr_version = [t \in Tools |-> NoText]
    /\ prefix = [t \in Cloned |-> FALSE]
    /\ fs \in {[f \in Files |-> IF f = ".vimrc" THEN a
                                ELSE IF f = ".zshrc" THEN b ELSE FileAbsent] :
                 a \in {FileAbsent, UserFile}, b \in {FileAbsent, UserFile}}
    /\ listed = FALSE
    /\ deployed = <<>>
    /\ raised = FALSE
    /\ vpc = "idle" /\ v1 = NoText /\ v2 = NoText /\ lt = FALSE

\* __main__ after parseArgs(): "if args.whatprovided: DTUtils.list_all(dt_list)"
Start ==
    /\ pc = "start"
    /\ euid' \in Euids
    /\ listed' = args.whatprovided
    /\ pc' = "loop"
    /\ UNCHANGED <<run, args, idx, self, calls, msgs, spawn, hook_proc, exists_ret,
                   download_ret, curr_version, prefix, fs, deployed, raised>>
    /\ UNCHANGED verVars
    /\ UNCHANGED rc_before

\* "for dt in dt_list: if dt.dtd.cmd in args.dtools: devtool_deploy(dt, ...)":
\* the loop goes to the next entry that is named and enters its deploy(),
\* or it ends and the program exits
LoopNext ==
    /\ pc = "loop"
    /\ LET named == {i \in idx..Len(dt_list) : dt_list[i] \in args.dtools}
       IN  IF named = {}
           THEN /\ pc' = "exit"
                /\ idx' = Len(dt_list) + 1
                /\ spawn' = NoSpawn
                /\ hook_proc' = NoProc
                /\ euid' = "unread"
                /\ UNCHANGED <<self, calls, msgs, exists_ret, download_ret,
                               deployed>>
           ELSE LET i == MinOf(named)
                IN  /\ pc' = "exists"
                    /\ idx' = i + 1
                    /\ self' = dt_list[i]
                    /\ deployed' = Append(deployed, dt_list[i])
                    /\ calls' = <<>>
                    /\ msgs' = <<>>
                    /\ spawn' = NoSpawn
                    /\ hook_proc' = NoProc
                    /\ exists_ret' = FALSE
                    /\ download_ret' = FALSE
                    /\ UNCHANGED euid
    /\ UNCHANGED <<run, args, curr_version, prefix, fs, listed, raised>>
    /\ UNCHANGED verVars
    /\ UNCHANGED rc_before

\* deploy(): "if self.exists()" in either direction, with what follows it
\* up to the next hook
CallExists ==
    /\ pc = "exists"
    /\ Call("exists")
    /\ IF self \in PrefixProbed
       THEN /\ exists_ret' = prefix_exists(prefix[self])
            /\ UNCHANGED <<spawn, curr_version>>
       ELSE \E sp \in Spawns(self) :
              LET r == exists(sp, min_version(self), curr_version[self])
              IN  /\ spawn' = sp
                  /\ exists_ret' = r.ret
                  /\ curr_version' = [curr_version EXCEPT ![self] = r.curr_version]
    /\ Say(SaidAfterExists(args.uninst, exists_ret'))
    /\ Goto(AfterExists(args.uninst, exists_ret'))
    /\ UNCHANGED <<euid, hook_proc, download_ret, prefix, fs>>
    /\ UNCHANGED loopVars
    /\ UNCHANGED verVars
    /\ UNCHANGED rc_before

\* deploy(): "if not self.download(): return"
CallDownload ==
    /\ pc = "download"
    /\ Call("download")
    /\ \E o \in ProcOutcomes :
         LET ok == download(self, o)
         IN  /\ hook_proc' = IF self \in Cloned THEN o ELSE NoProc
             /\ download_ret' = ok
             /\ Goto(AfterDownload(ok))
             /\ Say(IF self \in Cloned /\ ~ok
                    THEN <<"failure: git clone">> ELSE <<>>)
             /\ prefix' = IF self \in Cloned /\ ok
                          THEN [prefix EXCEPT ![self] = TRUE] ELSE prefix
    /\ spawn' = NoSpawn
    /\ euid' = "unread"
    /\ UNCHANGED <<exists_ret, curr_version, fs>>
    /\ UNCHANGED loopVars
    /\ UNCHANGED verVars
    /\ UNCHANGED rc_before

\* unpack(), build(), clean(): "pass" in every class of the catalog
CallPass(h) ==
    /\ pc = h
    /\ Call(h)
    /\ Goto(NextHook(h))
    /\ spawn' = NoSpawn
    /\ hook_proc' = NoProc
    /\ euid' = "unread"
    /\ UNCHANGED <<msgs, exists_ret, download_ret, curr_version, prefix, fs>>
    /\ UNCHANGED loopVars
    /\ UNCHANGED verVars
    /\ UNCHANGED rc_before

CallUnpack == CallPass("unpack")

CallBuild == CallPass("build")

CallClean == CallPass("clean")

\* install() of the class of self
CallInstall ==
    /\ pc = "install"
    /\ Call("install")
    /\ CASE self \in {"gcc", "zsh"} ->
              \* DevToolDeploy.install: apt-get in try/except Exception
              \E o \in ProcOutcomes :
                /\ hook_proc' = o
                /\ Say(IF o = "OSError" THEN <<"failure: apt-get install">> ELSE <<>>)
                /\ Goto(NextHook("install"))
                /\ UNCHANGED fs
         [] self = "fzf" ->
              \* DTFzf.install: the installer of the clone in try/except
              \E o \in ProcOutcomes :
                /\ hook_proc' = o
                /\ Say(IF o = "OSError" THEN <<"failure: install">> ELSE <<>>)
                /\ Goto(NextHook("install"))
                /\ UNCHANGED fs
         [] self \in {"ohmyzsh", "tpm"} ->
              \* DTOhMyZsh.install, DTTpm.install: pass
              /\ Goto(NextHook("install"))
              /\ hook_proc' = NoProc
              /\ UNCHANGED <<msgs, fs>>
         [] self = "vimrc" ->
              \* DTVimrc.install: the backup is made outside the try, the
              \* installer of the clone runs inside it
              \/ /\ fs[".vimrc"].exists
                 /\ Throw           \* shutil.copyfile raises (OSError)
                 /\ hook_proc' = NoProc
                 /\ UNCHANGED <<msgs, fs>>
              \/ \E o \in ProcOutcomes :
                   LET saved == IF fs[".vimrc"].exists
                                THEN [fs EXCEPT ![".vimrc.orig"] = fs[".vimrc"]]
                                ELSE fs
                   IN  /\ fs' = IF o = "exit 0"
                                THEN [saved EXCEPT ![".vimrc"] = AwesomeFile]
                                ELSE saved
                       /\ hook_proc' = o
                       /\ Say(IF o = "OSError" THEN <<"failure: install">> ELSE <<>>)
                       /\ Goto(NextHook("install"))
    /\ spawn' = NoSpawn
    /\ euid' = "unread"
    /\ UNCHANGED <<exists_ret, download_ret, curr_version, prefix>>
    /\ UNCHANGED loopVars
    /\ UNCHANGED verVars
    /\ rc_before' = IF self = "vimrc" /\ ~raised'
                    THEN <<fs[".vimrc"]>> ELSE rc_before

\* how DTZsh.configure can end: the first grep (outside the try) exits
\* non-zero and check_output raises; the login shell is zsh already; usermod
\* exits 0; something in the try block fails and is caught; usermod exits
\* non-zero (nothing is printed)
ZshConfigureOutcomes ==
    {"CalledProcessError", "zsh already", "exit 0", "caught", "exit nonzero"}

\* configure() of the class of self
CallConfigure ==
    /\ pc = "configure"
    /\ Call("configure")
    /\ hook_proc' = NoProc
    /\ CASE self \in {"gcc", "vimrc"} ->
              \* DevToolDeploy.configure, DTVimrc.configure: pass
              /\ Goto(NextHook("configure"))
              /\ UNCHANGED <<msgs, fs>>
         [] self = "fzf" ->
              \* DTFzf.configure: everything in try/except
              IF ~fs[".vimrc"].exists
              THEN /\ Say(<<"failure: fzf.vim plugin">>)
                   /\ Goto(NextHook("configure"))
                   /\ UNCHANGED fs
              ELSE IF HasLine(fs[".vimrc"], FzfLine[1][1])
              THEN /\ Goto(NextHook("configure"))
                   /\ UNCHANGED <<msgs, fs>>
              ELSE \/ /\ fs' = [fs EXCEPT ![".vimrc"] = AppendText(@, FzfLine)]
                      /\ Goto(NextHook("configure"))
                      /\ UNCHANGED msgs
                   \/ /\ Say(<<"failure: fzf.vim plugin">>)   \* open or write fails
                      /\ Goto(NextHook("configure"))
                      /\ UNCHANGED fs
         [] self = "zsh" ->
              \E o \in ZshConfigureOutcomes :
                /\ IF o = "CalledProcessError" THEN Throw
                   ELSE Goto(NextHook("configure"))
                /\ Say(CASE o = "exit 0" -> <<"okay: login shell has changed">>
                         [] o = "caught" -> <<"failure: change login shell">>
                         [] OTHER -> <<>>)
                /\ UNCHANGED fs
         [] self = "ohmyzsh" ->
              \* DTOhMyZsh.configure: two copies, neither in a try
              LET template == IF prefix["ohmyzsh"] THEN TemplateFile ELSE FileAbsent
                  saved == IF fs[".zshrc"].exists
                           THEN [fs EXCEPT ![".zshrc.orig"] = fs[".zshrc"]]
                           ELSE fs
              IN  \/ /\ fs[".zshrc"].exists
                     /\ Throw       \* the first shutil.copyfile raises
                     /\ UNCHANGED <<msgs, fs>>
                  \/ /\ template.exists
                     /\ Throw       \* the second shutil.copyfile raises
                     /\ fs' = saved
                     /\ UNCHANGED msgs
                  \/ /\ fs' = IF template.exists
                              THEN [saved EXCEPT ![".zshrc"] = template]
                              ELSE saved
                     /\ Goto(NextHook("configure"))
                     /\ UNCHANGED msgs
         [] self = "tpm" ->
              \* DTTpm.configure: open(conf, 'a+') and write in try/except
              \/ /\ fs' = [fs EXCEPT ![".tmux.conf"] = AppendText(@, TpmConfig)]
                 /\ Goto(NextHook("configure"))
                 /\ UNCHANGED msgs
              \/ /\ Say(<<"failure: No such file or directory">>)
                 /\ Goto(NextHook("configure"))
                 /\ UNCHANGED fs
    /\ spawn' = NoSpawn
    /\ euid' = "unread"
    /\ UNCHANGED <<exists_ret, download_ret, curr_version, prefix>>
    /\ UNCHANGED loopVars
    /\ UNCHANGED verVars
    /\ UNCHANGED rc_before

\* uninstall() of the class of self
CallUninstall ==
    /\ pc = "uninstall"
    /\ Call("uninstall")
    /\ CASE self \in {"gcc", "zsh"} ->
              \* DevToolDeploy.uninstall: apt-get purge in try/except Exception
              \E o \in ProcOutcomes :
                /\ hook_proc' = o
                /\ Say(IF o = "OSError" THEN <<"failure: apt-get purge">> ELSE <<>>)
                /\ Goto(NextHook("uninstall"))
                /\ UNCHANGED <<prefix, fs>>
         [] self = "fzf" ->
              \* DTFzf.uninstall: the uninstaller in try/except, rmtree in finally
              \E o \in ProcOutcomes :
                /\ hook_proc' = o
                /\ Say(IF o = "OSError" THEN <<"failure: exec uninstall">> ELSE <<>>)
                /\ prefix' = [prefix EXCEPT !["fzf"] = FALSE]
                /\ Goto(NextHook("uninstall"))
                /\ UNCHANGED fs
         [] self = "ohmyzsh" ->
              \* DTOhMyZsh.uninstall: KeyError and FileNotFoundError are caught;
              \* tools/uninstall.sh, when it succeeds, removes the install prefix
              \E o \in {"KeyError", "exit 0", "exit nonzero"} :
                /\ hook_proc' = o
                /\ prefix' = IF o = "exit 0"
                             THEN [prefix EXCEPT !["ohmyzsh"] = FALSE] ELSE prefix
                /\ Goto(NextHook("uninstall"))
                /\ UNCHANGED <<msgs, fs>>
         [] self = "tpm" ->
              \* DTTpm.uninstall: two rmtree, then os.remove(self.conf)
              /\ prefix' = [prefix EXCEPT !["tpm"] = FALSE]
              /\ hook_proc' = NoProc
              /\ IF fs[".tmux.conf"].exists
                 THEN /\ fs' = [fs EXCEPT ![".tmux.conf"] = FileAbsent]
                      /\ Goto(NextHook("uninstall"))
                 ELSE /\ Throw      \* FileNotFoundError
                      /\ UNCHANGED fs
              /\ UNCHANGED msgs
         [] self = "vimrc" ->
              \* DTVimrc.uninstall: rmtree, then the backup is moved back, or
              \* .vimrc is removed
              /\ prefix' = [prefix EXCEPT !["vimrc"] = FALSE]
              /\ hook_proc' = NoProc
              /\ IF fs[".vimrc.orig"].exists
                 THEN /\ fs' = [fs EXCEPT ![".vimrc"] = fs[".vimrc.orig"],
                                          ![".vimrc.orig"] = FileAbsent]
                      /\ Goto(NextHook("uninstall"))
                 ELSE IF fs[".vimrc"].exists
                 THEN /\ fs' = [fs EXCEPT ![".vimrc"] = FileAbsent]
                      /\ Goto(NextHook("uninstall"))
                 ELSE /\ Throw      \* FileNotFoundError
                      /\ UNCHANGED fs
              /\ UNCHANGED msgs
    /\ spawn' = NoSpawn
    /\ euid' = "unread"
    /\ UNCHANGED <<exists_ret, download_ret, curr_version>>
    /\ UNCHANGED loopVars
    /\ UNCHANGED verVars
    /\ UNCHANGED rc_before

\* the program is run again: a new command line and new descriptors, on the
\* disk the run before left
Restart ==
    /\ pc = "exit"
    /\ run < MaxRuns
    /\ run' = run + 1
    /\ args' \in ArgSets
    /\ pc' = "start"
    /\ idx' = 1
    /\ self' = "none"
    /\ calls' = <<>>
    /\ msgs' = <<>>
    /\ euid' = "unread"
    /\ spawn' = NoSpawn
    /\ hook_proc' = NoProc
    /\ exists_ret' = FALSE
    /\ download_ret' = FALSE
    /\ curr_version' = [t \in Tools |-> NoText]
    /\ listed' = FALSE
    /\ deployed' = <<>>
    /\ raised' = FALSE
    /\ UNCHANGED <<prefix, fs>>
    /\ UNCHANGED verVars
    /\ UNCHANGED rc_before

Next ==
    \/ Start
    \/ LoopNext
    \/ CallExists
    \/ CallDownload
    \/ CallUnpack
    \/ CallBuild
    \/ CallInstall
    \/ CallClean
    \/ CallConfigure
    \/ CallUninstall
    \/ Restart

Spec == Init /\ [][Next]_vars

(***************************************************************************)
(* DTUtils.version_lt on its own: the arguments are drawn from dotted      *)
(* numeric strings, the function is applied, new arguments are drawn.      *)
(***************************************************************************)
Versions == {<<"5">>,
             <<"5", ".", "0">>,
             <<"5", ".", "0", ".", "0">>,
             <<"5", ".", "0", ".", "7">>,
             <<"5", ".", "0", ".", "8">>,
             <<"5", ".", "0", ".", "1", "0">>,
             <<"5", ".", "0", ".", "9", "9">>,
             <<"5", ".", "1">>,
             <<"5", ".", "8">>,
             <<"4", ".", "3", ".", "1", "1">>,
             <<"1", "0", ".", "0">>}

InitVer ==
    /\ run = 1
    /\ args = [dtools |-> {}, uninst |-> FALSE, whatprovided |-> FALSE]
    /\ pc = "start"
    /\ idx = 1
    /\ self = "none"
    /\ calls = <<>>
    /\ msgs = <<>>
    /\ euid = "unread"
    /\ spawn = NoSpawn
    /\ hook_proc = NoProc
    /\ rc_before = <<>>
    /\ exists_ret = FALSE
    /\ download_ret = FALSE
    /\ curr_version = [t \in Tools |-> NoText]
    /\ prefix = [t \in Cloned |-> FALSE]
    /\ fs = [f \in Files |-> FileAbsent]
    /\ listed = FALSE
    /\ deployed = <<>>
    /\ raised = FALSE
    /\ vpc = "called"
    /\ v1 \in Versions
    /\ v2 \in Versions
    /\ lt = FALSE

\* version_lt(v1, v2) returns
VersionLtReturns ==
    /\ vpc = "called"
    /\ lt' = version_lt(v1, v2)
    /\ vpc' = "returned"
    /\ UNCHANGED <<v1, v2>>
    /\ UNCHANGED <<run, args, pc, idx, self, calls, msgs, euid, spawn, hook_proc,
                   rc_before, exists_ret, download_ret, curr_version, prefix, fs, listed,
                   deployed, raised>>

\* version_lt is called again
VersionLtCalled ==
    /\ vpc = "returned"
    /\ v1' \in Versions
    /\ v2' \in Versions
    /\ lt' = FALSE
    /\ vpc' = "called"
    /\ UNCHANGED <<run, args, pc, idx, self, calls, msgs, euid, spawn, hook_proc,
                   rc_before, exists_ret, download_ret, curr_version, prefix, fs, listed,
                   deployed, raised>>

NextVer == VersionLtReturns \/ VersionLtCalled

SpecVer == InitVer /\ [][NextVer]_vars

(***************************************************************************)
(* Vocabulary of the properties.                                           *)
(***************************************************************************)
\* the probe and the six hooks of a full installation, in the order of deploy()
InstallSequence ==
    <<"exists", "download", "unpack", "build", "install", "clean", "configure">>

IsPrefixOf(a, b) == Len(a) <= Len(b) /\ a = SubSeq(b, 1, Len(a))

Count(h) == Cardinality({i \in 1..Len(calls) : calls[i] = h})

\* deploy() of self has returned, or an exception has left it
DeployEnded == self # "none" /\ pc \in {"loop", "exit"}

\* exists() of self has just returned: no hook has been entered since
JustProbed == calls = <<"exists">>

\* the --version command of self ran and the probe did not take it for missing
CommandRan ==
    /\ self \notin PrefixProbed
    /\ spawn.kind = "ran"
    /\ ~SearchIgnoreCase(CommandNotFound, spawn.stderr)

\* the probe that has just returned found the tool on the machine, whatever
\* its version: the command ran, or the install prefix is on disk
ProbePresent == IF self \in PrefixProbed THEN prefix[self] ELSE CommandRan

\* the probe that has just returned found no executable (or an output that
\* says so), or no install prefix
ProbeAbsent ==
    IF self \in PrefixProbed
    THEN ~prefix[self]
    ELSE \/ spawn.kind = "FileNotFoundError"
         \/ spawn.kind = "ran" /\ SearchIgnoreCase(CommandNotFound, spawn.stderr)

\* a < b for versions, a missing trailing component counting as 0
Component(a, i) == IF i <= Len(a) THEN a[i] ELSE 0

PaddedLt(a, b) ==
    LET n == IF Len(a) < Len(b) THEN Len(b) ELSE Len(a)
    IN  \E k \in 1..n : /\ \A i \in 1..(k - 1) : Component(a, i) = Component(b, i)
                        /\ Component(a, k) < Component(b, k)

AllDeployed == \A t \in args.dtools : \E i \in 1..Len(deployed) : deployed[i] = t

(***************************************************************************)
(* C1.  Idempotency of the driver: once exists() has returned true in the  *)
(* install direction, deploy() calls configure and nothing else, so that   *)
(* at its end the calls are the probe and one configure; this holds in     *)
(* every invocation, the later ones included.                              *)
(***************************************************************************)
C1_Idempotent ==
    (~args.uninst /\ Len(calls) >= 1 /\ exists_ret) =>
        /\ IsPrefixOf(calls, <<"exists", "configure">>)
        /\ (DeployEnded => calls = <<"exists", "configure">>)

\* tpm, cloned by the first invocation, is deployed again by the second
C1_Witness ==
    /\ run = 2 /\ self = "tpm" /\ ~args.uninst /\ exists_ret
    /\ DeployEnded /\ calls = <<"exists", "configure">>

(***************************************************************************)
(* C2.  Abort on acquisition failure: in the install direction, when the   *)
(* probe returned false and download() returned False, deploy() has        *)
(* returned and called nothing but the probe and download.                 *)
(***************************************************************************)
C2_AbortOnDownloadFailure ==
    (~args.uninst /\ Len(calls) >= 2 /\ calls[2] = "download" /\ ~download_ret) =>
        /\ calls = <<"exists", "download">>
        /\ ~exists_ret
        /\ DeployEnded /\ ~raised

C2_Witness ==
    /\ self = "fzf" /\ ~args.uninst /\ calls = <<"exists", "download">>
    /\ ~download_ret /\ pc = "loop"

(***************************************************************************)
(* C3.  Lifecycle order: the probe is the first call of deploy() and runs  *)
(* once; when it returned false and download() succeeded, deploy() ends    *)
(* having called download, unpack, build, install, clean, configure once   *)
(* each in this order.                                                     *)
(***************************************************************************)
C3_LifecycleOrder ==
    /\ (Len(calls) >= 1 => calls[1] = "exists" /\ Count("exists") = 1)
    /\ (~args.uninst /\ DeployEnded /\ Len(calls) >= 2 /\ download_ret) =>
           calls = InstallSequence

(***************************************************************************)
(* C4.  Uninstall of a present tool: in the uninstall direction, whenever  *)
(* the probe found the tool (whatever its version), the uninstall hook is  *)
(* the next thing deploy() calls.                                          *)
(***************************************************************************)
C4_UninstallWhenPresent ==
    (args.uninst /\ JustProbed /\ ProbePresent) => pc = "uninstall"

(***************************************************************************)
(* C5.  Absent-tool uninstall: in the uninstall direction, when the probe  *)
(* found the tool absent, deploy() has returned after the probe with the   *)
(* warning as its only output, and no hook was called.                     *)
(***************************************************************************)
C5_AbsentUninstall ==
    (args.uninst /\ JustProbed /\ ProbeAbsent) =>
        /\ ~exists_ret
        /\ DeployEnded /\ ~raised
        /\ msgs = <<"warning: not installed yet">>

C5_Witness ==
    /\ args.uninst /\ JustProbed /\ self = "gcc"
    /\ spawn.kind = "FileNotFoundError"
    /\ pc = "loop" /\ msgs = <<"warning: not installed yet">>

(***************************************************************************)
(* C6.  Hook failures are contained: no failure inside a hook ends the     *)
(* invocation, every named entry is deployed, and a deploy() that called   *)
(* install has called configure when it ends.                              *)
(***************************************************************************)
C6_HookFailuresContained ==
    /\ ~raised
    /\ (pc = "exit" => AllDeployed)
    /\ (DeployEnded /\ Count("install") = 1 => Count("configure") = 1)

(***************************************************************************)
(* C7.  Version comparison pads with zeros: version_lt(v1, v2) is true     *)
(* exactly when v1 is component-wise less than v2 after the shorter one is *)
(* padded with trailing 0 components.                                      *)
(***************************************************************************)
C7_VersionLtPads ==
    vpc = "returned" => (lt <=> PaddedLt(VersionTuple(v1), VersionTuple(v2)))

(***************************************************************************)
(* C8.  Version gate of the default probe.  As claimed: when the command   *)
(* ran, a version was extracted and min_version is set, exists() returns   *)
(* true exactly when the extracted version is at least min_version,        *)
(* whatever the exit code.                                                 *)
(***************************************************************************)
VersionExtracted == CommandRan /\ VersionFound(spawn.stdout)

ExtractedAtLeastMin ==
    ~PaddedLt(VersionTuple(VersionMatch(spawn.stdout)),
              VersionTuple(min_version(self)))

C8_VersionGateAnyExitCode ==
    (JustProbed /\ VersionExtracted /\ Len(min_version(self)) > 0) =>
        (exists_ret <=> ExtractedAtLeastMin)

\* C8 as amended: with exit code 0 exists() returns true exactly when the
\* extracted version is at least min_version; with another exit code it
\* returns false
C8_VersionGate ==
    (JustProbed /\ VersionExtracted /\ Len(min_version(self)) > 0) =>
        (exists_ret <=> (spawn.returncode = 0 /\ ExtractedAtLeastMin))

\* zsh prints exactly the minimum version and exits with 0
C8_Witness ==
    /\ JustProbed /\ self = "zsh" /\ VersionExtracted
    /\ spawn.returncode = 0
    /\ curr_version["zsh"] = min_version("zsh")
    /\ exists_ret

(***************************************************************************)
(* C9.  Presence-only probe.  As claimed: when the command was spawned and *)
(* min_version is unset, exists() returns true whatever the command wrote  *)
(* to stdout and stderr and whatever its exit code.                        *)
(***************************************************************************)
C9_PresenceOnlyAnyOutput ==
    (JustProbed /\ self \notin PrefixProbed /\ spawn.kind = "ran"
                /\ Len(min_version(self)) = 0) =>
        exists_ret

\* C9 as amended: ... and its stderr does not contain "command not found",
\* in any case of the letters
C9_PresenceOnly ==
    (JustProbed /\ CommandRan /\ Len(min_version(self)) = 0) => exists_ret

\* gcc prints no version, complains on stderr and exits with 1
C9_Witness ==
    /\ JustProbed /\ self = "gcc" /\ CommandRan
    /\ spawn.stdout = NoText /\ spawn.stderr # NoText /\ spawn.returncode = 1
    /\ exists_ret

(***************************************************************************)
(* C10.  Indeterminate is treated as insufficient: when the command ran,   *)
(* no version can be extracted and min_version is set, exists() returns    *)
(* false and raises nothing, and in the install direction deploy() goes on *)
(* to download; a deploy() of an entry with a min_version whose probe      *)
(* returned false, for whatever reason, calls download, unpack, build,     *)
(* install, clean in this order.                                           *)
(***************************************************************************)
C10_IndeterminateReinstalls ==
    /\ (JustProbed /\ CommandRan /\ ~VersionFound(spawn.stdout)
                   /\ Len(min_version(self)) > 0) =>
           /\ ~exists_ret /\ ~raised
           /\ (~args.uninst => pc = "download")
    /\ (~args.uninst /\ Len(calls) >= 1 /\ ~exists_ret /\ self # "none"
                     /\ Len(min_version(self)) > 0) =>
           /\ IsPrefixOf(calls, InstallSequence)
           /\ (DeployEnded => IsPrefixOf(SubSeq(InstallSequence, 1, 6), calls))

\* zsh prints "zsh v5": the full sequence has run
C10_Witness ==
    /\ self = "zsh" /\ ~args.uninst /\ ~exists_ret /\ DeployEnded
    /\ curr_version["zsh"] = NoText
    /\ calls = InstallSequence

(***************************************************************************)
(* C11  configure in both directions                                       *)
(***************************************************************************)
\* download() of self has returned False: deploy() has returned at once
DownloadFailed == calls = <<"exists", "download">> /\ ~download_ret

\* C11, as claimed: every deploy that no download failure aborted has called
\* configure by the time it ends, in the uninstall direction as in the
\* install direction.
C11_ConfigureBothDirections ==
    (DeployEnded /\ ~DownloadFailed) => Count("configure") = 1

\* C11, amended: configure is called in the install direction only.  There it
\* is the call that follows a true probe, and the call that follows clean();
\* it comes once, last, after the probe alone or after the whole install
\* sequence.  In the uninstall direction it is never called.
C11_ConfigureInstallOnly ==
    /\ args.uninst => Count("configure") = 0
    /\ (~args.uninst /\ ~raised /\ Len(calls) >= 1 /\ Count("configure") = 0
          /\ ((calls = <<"exists">> /\ exists_ret) \/ calls[Len(calls)] = "clean"))
         => pc = "configure"
    /\ Count("configure") >= 1 =>
         /\ Count("configure") = 1
         /\ calls \in {<<"exists", "configure">>, InstallSequence}

\* an uninstall-direction deploy has called uninstall() and returned
C11_Witness ==
    /\ args.uninst /\ DeployEnded /\ ~raised
    /\ calls = <<"exists", "uninstall">>

(***************************************************************************)
(* C12  the tpm configuration is appended once                             *)
(***************************************************************************)
\* what one install-direction deploy of tpm leaves in a .tmux.conf that was
\* not there before
TpmConfiguredOnce == AppendText(FileAbsent, TpmConfig)

\* C12: DTTpm.configure appends the plugin lines only if they are not there
\* yet, so .tmux.conf (absent at first, written by nothing else) holds after
\* any number of install-direction deploys of tpm what it holds after one.
C12_TpmConfigureIdempotent ==
    fs[".tmux.conf"].exists => fs[".tmux.conf"] = TpmConfiguredOnce

(***************************************************************************)
(* C13  listing does not act                                               *)
(***************************************************************************)
\* C13: when -l/--list is given the catalog is printed and nothing is
\* deployed or uninstalled, whatever tool names are given: no entry is
\* entered, no probe and no hook runs.
C13_ListingDoesNotAct ==
    listed => (deployed = <<>> /\ self = "none" /\ calls = <<>>)

(***************************************************************************)
(* C14  privilege gate                                                     *)
(***************************************************************************)
\* C14: for an entry that needs elevated rights, when the process does not
\* run as root, no probe and no hook of that entry runs: the invocation has
\* ended, or is about to end, before the first of them.
C14_PrivilegeGate ==
    (euid = "user" /\ self \in AptProvisioned) =>
        (calls = <<>> /\ pc \in {"exists", "exit"})

(***************************************************************************)
(* C15  package-manager failures are reported                              *)
(***************************************************************************)
\* the default install() or uninstall() of self has just returned
AptHookReturned ==
    /\ self \in AptProvisioned
    /\ Len(calls) >= 1
    /\ calls[Len(calls)] \in {"install", "uninstall"}
    /\ hook_proc # NoProc

FailureSaid == \E i \in 1..Len(msgs) : msgs[i] \in
                   {"failure: apt-get install", "failure: apt-get purge"}

\* C15: in the default install and uninstall hooks a non-zero exit code of
\* apt-get and a failure to spawn it are both reported with a failure
\* message, and neither leaves the hook as an exception.
C15_AptFailuresReported ==
    (AptHookReturned /\ hook_proc # "exit 0") => (FailureSaid /\ ~raised)

(***************************************************************************)
(* C16  shape and single write of curr_version                             *)
(***************************************************************************)
\* s is major.minor or major.minor.patch, each a non-empty run of digits
IsDottedNumeric(s) ==
    LET parts == split(s, ".")
    IN  /\ Len(parts) \in {2, 3}
        /\ \A i \in 1..Len(parts) :
             /\ Len(parts[i]) >= 1
             /\ \A k \in 1..Len(parts[i]) : IsDigit(parts[i][k])

CurrVersionShape ==
    \A t \in Tools : curr_version[t] = NoText \/ IsDottedNumeric(curr_version[t])

\* a step that changes some curr_version is the exists() of self extracting a
\* version, and writes what it extracted into the descriptor of self alone;
\* or it is the start of a new process, whose descriptors are new
CurrVersionWrite ==
    (curr_version' # curr_version) =>
        \/ /\ pc = "exists"
           /\ VersionExtracted'
           /\ curr_version' =
                [curr_version EXCEPT ![self] = VersionMatch(spawn'.stdout)]
        \/ /\ pc = "exit" /\ run' = run + 1
           /\ curr_version' = [t \in Tools |-> NoText]

\* an exists() that extracts a version leaves it in the descriptor
CurrVersionWritten ==
    (JustProbed /\ VersionExtracted) =>
        curr_version[self] = VersionMatch(spawn.stdout)

\* C16: curr_version is always empty or a dotted numeric string (major.minor
\* or major.minor.patch); a call of exists() writes it at most once, and only
\* when it extracts a version, and otherwise leaves it, and the descriptors
\* of the other entries, as they were.
C16_CurrVersion ==
    /\ [](CurrVersionShape /\ CurrVersionWritten)
    /\ [][CurrVersionWrite]_vars

\* zsh has printed a three-component version and the probe has kept it, and
\* the descriptor of gcc, probed before without a version found, is empty
C16_Witness ==
    /\ JustProbed /\ self = "zsh" /\ VersionExtracted
    /\ Len(split(curr_version["zsh"], ".")) = 3
    /\ deployed = <<"gcc", "zsh">>
    /\ curr_version["gcc"] = NoText

(***************************************************************************)
(* C17  sequential selection                                               *)
(***************************************************************************)
\* the catalog entries named on the command line, in catalog order
NamedInOrder == SelectSeq(dt_list, LAMBDA t : t \in args.dtools)

CloneReturned ==
    /\ self \in Cloned
    /\ calls = <<"exists", "download">>
    /\ hook_proc # NoProc

\* what git_shallow_clone returned, and how deploy() took it
CloneOutcome ==
    CloneReturned =>
        /\ download_ret <=> (hook_proc = "exit 0")
        /\ ~raised
        /\ ~download_ret =>
             /\ pc = "loop"
             /\ msgs = <<"failure: git clone">>
             /\ deployed = SubSeq(NamedInOrder, 1, Len(deployed))
             /\ deployed[Len(deployed)] = self

\* the step after a failed clone: the loop enters the named entry that follows
\* in the catalog, or the program exits because there is none
AfterCloneFailure ==
    (CloneReturned /\ ~download_ret) =>
        IF Len(deployed) < Len(NamedInOrder)
        THEN /\ pc' = "exists"
             /\ self' = NamedInOrder[Len(deployed) + 1]
             /\ deployed' = Append(deployed, self')
             /\ ~raised'
        ELSE /\ pc' = "exit"
             /\ deployed' = NamedInOrder
             /\ ~raised'

\* C18: git_shallow_clone returns True exactly when git exits with code 0,
\* and False, without raising, when git exits with another code or cannot be
\* spawned; after such a failure the driver ends the lifecycle of that entry
\* alone, with a failure message, and goes on with the next named entry.
C18_CloneFailure == [](CloneOutcome) /\ [][AfterCloneFailure]_vars

\* the clone of fzf could not be spawned, and gcc, named too, is still to
\* come: the loop is about to enter it
C18_Witness ==
    /\ CloneReturned /\ self = "fzf" /\ hook_proc = "OSError"
    /\ ~download_ret /\ pc = "loop"
    /\ "gcc" \in args.dtools

(***************************************************************************)
(* C19  the backup of .zshrc survives repeated runs                        *)
(***************************************************************************)
\* C19: after any number of install-direction deploys of ohmyzsh,
\* .zshrc.orig still holds what .zshrc held before the first of them: the
\* backup that a configure() of ohmyzsh finds is the backup it leaves.
C19_BackupSurvives ==
    [][(pc = "configure" /\ self = "ohmyzsh" /\ fs[".zshrc.orig"].exists)
          => fs'[".zshrc.orig"] = fs[".zshrc.orig"]]_vars

(***************************************************************************)
(* C20  the fzf line is appended once                                      *)
(***************************************************************************)
\* how many times the line of DTFzf.configure stands in file f
FzfCount(f) ==
    Cardinality(UNION {{<<i, k>> : k \in {x \in 1..Len(f.lines[i]) :
                                            f.lines[i][x] = FzfLine[1][1]}} :
                       i \in 1..Len(f.lines)})

\* an install-direction deploy of fzf has ended
FzfDeployed == self = "fzf" /\ ~args.uninst /\ DeployEnded

\* configure() of that deploy ran and reported no failure
FzfConfigured ==
    /\ FzfDeployed /\ Count("configure") = 1
    /\ \A i \in 1..Len(msgs) : msgs[i] # "failure: fzf.vim plugin"

\* C20, as claimed: after an install-direction deploy of fzf, whichever it
\* is, an existing .vimrc contains the line exactly once.
C20_FzfLineExactlyOnce ==
    (FzfDeployed /\ fs[".vimrc"].exists) => FzfCount(fs[".vimrc"]) = 1

\* configure() of fzf leaves a .vimrc that contains the line as it is
FzfAppendOnlyIfAbsent ==
    (pc = "configure" /\ self = "fzf" /\ FzfCount(fs[".vimrc"]) >= 1)
        => fs'[".vimrc"] = fs[".vimrc"]

\* C20, amended: DTFzf.configure appends the line only when no line of
\* .vimrc contains it, so .vimrc never contains it more than once, and
\* contains it exactly once after every install-direction deploy of fzf whose
\* configure() ran and reported no failure.
C20_FzfLineOnce ==
    /\ [](/\ FzfCount(fs[".vimrc"]) <= 1
          /\ FzfConfigured =>
               (fs[".vimrc"].exists /\ FzfCount(fs[".vimrc"]) = 1))
    /\ [][FzfAppendOnlyIfAbsent]_vars

\* second invocation: fzf is deployed again, configure() has found the line
\* that the first invocation appended and has left the file alone
C20_Witness ==
    /\ run = 2 /\ FzfConfigured /\ calls = <<"exists", "configure">>
    /\ fs[".vimrc"] = AppendText(UserFile, FzfLine)

(***************************************************************************)
(* C21  vimrc install/uninstall round trip                                 *)
(***************************************************************************)
\* an uninstall-direction deploy of vimrc has called uninstall() and has
\* ended, after install() of an install-direction deploy of vimrc had returned
VimrcRoundTrip ==
    /\ self = "vimrc" /\ args.uninst /\ DeployEnded
    /\ Count("uninstall") = 1
    /\ rc_before # <<>>

\* C21: an install-direction deploy of vimrc followed by an uninstall-direction
\* deploy leaves .vimrc as the install found it (its content then, or absent),
\* removes the install prefix and leaves no .vimrc.orig, without raising.
C21_VimrcRoundTrip ==
    VimrcRoundTrip =>
        /\ ~raised
        /\ fs[".vimrc"] = rc_before[1]
        /\ ~prefix["vimrc"]
        /\ ~fs[".vimrc.orig"].exists

====
